---- MODULE Spec2Model ----
(***************************************************************************)
(* A model of lib/index.js of github-labeller: one run of                  *)
(* GitHubLabeller(labels, options, callback), the network calls it issues  *)
(* through gh.js, the "added" events of the returned emitter and the       *)
(* invocations of the caller's callback.                                   *)
(*                                                                         *)
(* Strings that the code takes apart (colors, label names, the target) are *)
(* sequences of one-character strings.  A JavaScript object is a TLA+      *)
(* record whose DOMAIN holds the fields that are present, so a missing     *)
(* field reads as undefined.                                               *)
(***************************************************************************)
EXTENDS Integers, Sequences, FiniteSets, Bags, TLC

VARIABLES
    request,   \* the arguments of the call, as the caller passed them
    labels,    \* the labels array of the (innermost) invocation
    options,   \* the options object (mutated by delete options.source)
    pc,        \* where the run is: init, source, listing, fanout, returned, crashed
    nested,    \* the running invocation is the recursive one of line 49
    forward,   \* line 50 has attached the forwarding listener
    user,      \* the owner the target resolved to
    mode,      \* "single" (line 87) or "multi" (lines 89-96)
    tasks,     \* per repository: name, fetch state, known names, label fan-out
    fan,       \* the join over the repositories (line 91)
    answers,   \* what the source-label fetch and the listing answered
    calls,     \* bag of the network calls issued so far
    events,    \* bag of the "added" events seen on the returned emitter
    cbCalls,   \* the invocations of the caller's callback, in order
    run,       \* which call of the caller this is (1 for the first)
    remote     \* the labels on the repositories, where the model follows them

vars == <<request, labels, options, pc, nested, forward, user, mode, tasks,
          fan, answers, calls, events, cbCalls, run, remote>>

(***************************************************************************)
(* Bounds of the model.                                                    *)
(***************************************************************************)
MaxLabels == 3     \* longest merged label list (explicit plus source)
MaxRepos == 3      \* most repositories a listing returns
MaxWrites == 4     \* most create/update calls of one run

(***************************************************************************)
(* JavaScript values.                                                      *)
(***************************************************************************)
Null == [t |-> "null"]
Undefined == [t |-> "undefined"]
Arr(s) == [t |-> "array", items |-> s]
Args(e, d) == [err |-> e, data |-> d]

Has(o, f) == f \in DOMAIN o
\* o[f] is a non-empty string
Truthy(o, f) == Has(o, f) /\ o[f] # <<>>

RECURSIVE SeqToSet(_)
SeqToSet(s) == IF s = <<>> THEN {} ELSE {Head(s)} \cup SeqToSet(Tail(s))

\* all sequences over S of length at most n
RECURSIVE SeqsUpTo(_, _)
SeqsUpTo(S, n) ==
    IF n = 0 THEN {<<>>}
    ELSE LET shorter == SeqsUpTo(S, n - 1)
         IN  shorter \cup {Append(s, x) : s \in {q \in shorter : Len(q) = n - 1}, x \in S}

(***************************************************************************)
(* The inputs of a run and the answers of the remote.                      *)
(***************************************************************************)
NameBug == <<"a">>
NameFeat == <<"b", " ">>

\* labels a caller may pass: well formed (with '#', with the label alias) and
\* malformed in each way lines 56-72 look at
RawLabels ==
    { [name |-> NameBug, color |-> <<"#", "f">>],
      [label |-> NameFeat, color |-> <<"0">>],
      [name |-> <<>>, color |-> <<"f">>],
      [name |-> NameBug, color |-> <<"#">>],
      [name |-> NameBug] }

\* labels as the remote lists them: name, color without '#', and more fields
RemoteBug == [name |-> NameBug, color |-> <<"0">>, url |-> <<"u">>]
RemoteFeat == [name |-> NameFeat, color |-> <<"f">>, url |-> <<"u">>]
RemoteLabels == {RemoteBug, RemoteFeat}

SourceRepo == <<"s", "/", "r">>

Targets ==
    { <<"a", "/", "b">>,
      <<"a">>,
      <<"a", "/">>,
      <<"a", "/", "b", "/", "c">> }

Requests ==
    { [labels |-> ls, options |-> o] :
        ls \in SeqsUpTo(RawLabels, MaxLabels),
        o \in {[repo |-> t] : t \in Targets}
              \cup {[repo |-> t, source |-> SourceRepo] : t \in Targets} }

\* the k-th repository name of a listing
RepoName(k) == [i \in 1..k |-> "r"]
RepoLists == {[k \in 1..n |-> [name |-> RepoName(k)]] : n \in 0..MaxRepos}

\* what the existing-labels fetch of a repository may answer
ExistingLists == {<<>>, <<RemoteBug>>}

NetError(call) == [t |-> "error", msg |-> "request failed", call |-> call]
ValidationError(what, i) == [t |-> "error", msg |-> what, index |-> i]

\* whatever gh.js hands over as data beside the error of a failed call
FailedData == [t |-> "data of a failed call"]

(***************************************************************************)
(* lines 56-72: normalisation of the labels                                *)
(***************************************************************************)
\* lines 60-62
\* lines 60-62 keeping the color as it is
StripHashNever(color) == color

StripHash(color) ==
    IF Len(color) > 0 /\ Head(color) = "#" THEN Tail(color) ELSE color

\* lines 58-63 setting name and color on the label it was given
NormalizeLabelKeepFields(c) ==
    LET color == StripHash(c.color)
        name == IF Truthy(c, "name") THEN c.name
                ELSE IF Has(c, "label") THEN c.label ELSE <<>>
    IN  [f \in DOMAIN c \cup {"name", "color"} |->
            IF f = "name" THEN name ELSE IF f = "color" THEN color ELSE c[f]]

\* lines 58-63: the object that replaces labels[i]
NormalizeLabel(c) ==
    LET color == StripHash(c.color)
    IN  IF Truthy(c, "name") THEN [name |-> c.name, color |-> color]
        ELSE IF Has(c, "label") THEN [name |-> c.label, color |-> color]
        ELSE [color |-> color]

\* line 60 reads cLabel.color.charAt: a TypeError when color is undefined
ColorThrows(c) == ~Has(c, "color")

\* the loop with the test of lines 68-71 left out
RECURSIVE NormalizeFromNoColorTest(_, _)
NormalizeFromNoColorTest(ls, i) ==
    IF i > Len(ls) THEN [status |-> "ok", labels |-> ls, err |-> Null]
    ELSE IF ColorThrows(ls[i]) THEN [status |-> "throw", labels |-> ls, err |-> Null]
    ELSE LET c == NormalizeLabel(ls[i])
             done == [ls EXCEPT ![i] = c]
         IN  IF ~Truthy(c, "name")
             THEN [status |-> "error", labels |-> done,
                   err |-> ValidationError("Missing name for label", i - 1)]
             ELSE NormalizeFromNoColorTest(done, i + 1)

\* the loop of lines 56-72 from index i (1-based here, i - 1 in the code)
RECURSIVE NormalizeFrom(_, _)
NormalizeFrom(ls, i) ==
    IF i > Len(ls) THEN [status |-> "ok", labels |-> ls, err |-> Null]
    ELSE IF ColorThrows(ls[i]) THEN [status |-> "throw", labels |-> ls, err |-> Null]
    ELSE LET c == NormalizeLabel(ls[i])
             done == [ls EXCEPT ![i] = c]
         IN  IF ~Truthy(c, "name")
             THEN [status |-> "error", labels |-> done,
                   err |-> ValidationError("Missing name for label", i - 1)]
             ELSE IF c.color = <<>>
             THEN [status |-> "error", labels |-> done,
                   err |-> ValidationError("Missing color for label", i - 1)]
             ELSE NormalizeFrom(done, i + 1)

Normalize(ls) == NormalizeFrom(ls, 1)

(***************************************************************************)
(* lines 74-84: the target                                                 *)
(***************************************************************************)
\* String.prototype.split("/")
RECURSIVE SplitFrom(_, _, _)
SplitFrom(s, i, cur) ==
    IF i > Len(s) THEN <<cur>>
    ELSE IF s[i] = "/" THEN <<cur>> \o SplitFrom(s, i + 1, <<>>)
    ELSE SplitFrom(s, i + 1, Append(cur, s[i]))

Split(s) == SplitFrom(s, 1, <<>>)

\* lines 77-84
ParseTarget(repo) ==
    LET splits == Split(repo)
    IN  IF Len(splits) = 2
        THEN [user |-> splits[1], repo |-> splits[2], hasRepo |-> TRUE]
        ELSE [user |-> repo, repo |-> <<>>, hasRepo |-> FALSE]

\* line 86 testing the number of segments alone
IsSingleAnyRepo(target) == target.hasRepo

\* line 86: if (repo)
IsSingle(target) == target.hasRepo /\ target.repo # <<>>

(***************************************************************************)
(* SameTime(tasks, callback): the join of the same-time package.  All      *)
(* tasks are started at once; each reports (err, data) once; when the last *)
(* one has reported, the callback is invoked once with the first failure   *)
(* by completion order (null when none) and the results by input index.    *)
(***************************************************************************)
Pending == [t |-> "pending"]

SameTimeNew(n) ==
    [n |-> n, outs |-> [i \in 1..n |-> Pending], first |-> Null, complete |-> 0]

\* task i calls done(err, data)
SameTimeDone(st, i, e, d) ==
    [st EXCEPT !.outs[i] = Args(e, d),
               !.complete = @ + 1,
               !.first = IF @ = Null /\ e # Null THEN e ELSE @]

SameTimeComplete(st) == st.complete = st.n

\* the arguments the join hands to its callback
SameTimeArgs(st) == Args(st.first, Arr([i \in 1..st.n |-> st.outs[i].data]))

NoJoin == SameTimeNew(0)

(***************************************************************************)
(* The network calls (gh.get) and the events                               *)
(***************************************************************************)
SourceCall(src) == [kind |-> "source", repo |-> src]
ListingCall(owner) == [kind |-> "repos", owner |-> owner]
LabelsCall(owner, repo) == [kind |-> "labels", owner |-> owner, repo |-> repo]

\* encodeURIComponent
RECURSIVE EncodeURIComponent(_)
EncodeURIComponent(s) ==
    IF s = <<>> THEN <<>>
    ELSE (CASE Head(s) = " " -> <<"%", "2", "0">>
            [] Head(s) = "/" -> <<"%", "2", "F">>
            [] Head(s) = "#" -> <<"%", "2", "3">>
            [] OTHER -> <<Head(s)>>) \o EncodeURIComponent(Tail(s))

\* lines 159-161 with the test lost: every write goes to the collection
EndpointAlwaysCreate(owner, repo, label, known) == [owner |-> owner, repo |-> repo]

\* lines 159-161 with the test lost: every write goes to the sub-resource
EndpointAlwaysUpdate(owner, repo, label, known) ==
    [owner |-> owner, repo |-> repo, name |-> EncodeURIComponent(label.name)]

\* lines 146, 159-161: the endpoint of the write of one label
Endpoint(owner, repo, label, known) ==
    IF label.name \in SeqToSet(known)
    THEN [owner |-> owner, repo |-> repo, name |-> EncodeURIComponent(label.name)]
    ELSE [owner |-> owner, repo |-> repo]

\* the label-specific sub-resource (update) or the collection (create)
IsUpdate(endpoint) == Has(endpoint, "name")

\* line 163: gh.get(endpoint, { data: label }, callback); j is the position of
\* the label in the list, which tells two calls with equal payloads apart
WriteCall(owner, repo, label, known, j) ==
    [kind |-> "write", endpoint |-> Endpoint(owner, repo, label, known),
     data |-> label, idx |-> j]

\* line 152 passing the owner where the repository belongs
AddedEventNoRepo(owner, repo, c, e, d, i, j) ==
    [owner |-> owner, repo |-> owner, label |-> c, err |-> e, data |-> d,
     of |-> <<i, j>>]

\* line 152: the payload of "added"; of names the write it reports
AddedEvent(owner, repo, c, e, d, i, j) ==
    [owner |-> owner, repo |-> repo, label |-> c, err |-> e, data |-> d,
     of |-> <<i, j>>]

\* line 153 as done(err, data)
WriteDoneArgsPassError(e, d) == Args(e, d)

\* line 153 as done(null)
WriteDoneArgsNoData(e, d) == Args(Null, Undefined)

\* line 153: what the task of one label reports to the join
WriteDoneArgs(e, d) == Args(Null, d)

\* lines 122-124 keeping no name
KnownNamesNone(existing) == <<>>

\* line 123: the names of the existing labels
KnownNames(existing) == [k \in 1..Len(existing) |-> existing[k].name]

\* the label representation the remote answers a successful write with
Written(call) == [t |-> "label", name |-> call.data.name,
                  color |-> call.data.color,
                  url |-> <<call.endpoint.owner, call.endpoint.repo, call.data.name>>]

\* one repository: its existing-labels fetch (state and answer), the names
\* line 123 keeps, the outcome of each write on the network, and the join of
\* the label tasks (line 149)
NewTask(name) ==
    [name |-> name, fetch |-> "pending", existing |-> <<>>, known |-> <<>>,
     net |-> <<>>, join |-> NoJoin]

(***************************************************************************)
(* The state                                                               *)
(***************************************************************************)
Init ==
    /\ request \in Requests
    /\ labels = request.labels
    /\ options = request.options
    /\ pc = "init"
    /\ nested = FALSE
    /\ forward = FALSE
    /\ user = <<>>
    /\ mode = "none"
    /\ tasks = <<>>
    /\ fan = NoJoin
    /\ answers = [source |-> <<>>, repos |-> <<>>]
    /\ calls = EmptyBag
    /\ events = EmptyBag
    /\ cbCalls = <<>>
    /\ run = 1
    /\ remote = {}

Issue(cs) == calls' = calls (+) SetToBag(cs)
Callback(args) == cbCalls' = Append(cbCalls, args)

\* line 38 with the test of the labels lost: no request counts as empty
IsNoopNever(ls, opts) == FALSE

\* line 38
IsNoop(ls, opts) == Len(ls) = 0 /\ ~Has(opts, "source")

\* lines 38-99: the body of GitHubLabeller(ls, opts, callback); it sets every
\* variable but request, nested, forward and events
Invoke(ls, opts) ==
    IF IsNoop(ls, opts) THEN
        /\ Callback(Args(Null, Null))
        /\ pc' = "returned"
        /\ labels' = ls
        /\ options' = opts
        /\ UNCHANGED <<user, mode, tasks, fan, calls>>
    ELSE IF Has(opts, "source") THEN
        /\ Issue({SourceCall(opts.source)})
        /\ pc' = "source"
        /\ labels' = ls
        /\ options' = opts
        /\ UNCHANGED <<user, mode, tasks, fan, cbCalls>>
    ELSE
        LET n == Normalize(ls)
            target == ParseTarget(opts.repo)
        IN  /\ labels' = n.labels
            /\ options' = opts
            /\ CASE n.status = "throw" ->
                        /\ pc' = "crashed"
                        /\ UNCHANGED <<user, mode, tasks, fan, calls, cbCalls>>
                 [] n.status = "error" ->
                        /\ Callback(Args(n.err, Undefined))
                        /\ pc' = "returned"
                        /\ UNCHANGED <<user, mode, tasks, fan, calls>>
                 [] n.status = "ok" /\ IsSingle(target) ->
                        /\ user' = target.user
                        /\ mode' = "single"
                        /\ tasks' = <<NewTask(target.repo)>>
                        /\ Issue({LabelsCall(target.user, target.repo)})
                        /\ pc' = "fanout"
                        /\ UNCHANGED <<fan, cbCalls>>
                 [] OTHER ->
                        /\ user' = target.user
                        /\ mode' = "multi"
                        /\ Issue({ListingCall(target.user)})
                        /\ pc' = "listing"
                        /\ UNCHANGED <<tasks, fan, cbCalls>>

\* the caller calls GitHubLabeller(labels, options, callback)
Start ==
    /\ pc = "init"
    /\ Invoke(labels, options)
    /\ UNCHANGED <<run, remote,
                   request, nested, forward, answers, events>>

\* line 46 reporting the error and going on to the target with the labels
\* it has, as if the source had none
SourceFetchFailGoesOn ==
    /\ pc = "source"
    /\ Callback(Args(NetError(SourceCall(options.source)), Undefined))
    /\ user' = ParseTarget(options.repo).user
    /\ mode' = "multi"
    /\ Issue({ListingCall(ParseTarget(options.repo).user)})
    /\ pc' = "listing"
    /\ UNCHANGED <<run, remote,
                   request, labels, options, nested, forward, tasks, fan, answers,
                   events>>

\* line 46: the source-label fetch fails
SourceFetchFail ==
    /\ pc = "source"
    /\ Callback(Args(NetError(SourceCall(options.source)), Undefined))
    /\ pc' = "returned"
    /\ UNCHANGED <<run, remote,
                   request, labels, options, nested, forward, user, mode, tasks,
                   fan, answers, calls, events>>

\* line 48 with the operands swapped
MergeSourceFirst(ls, lbls) == lbls \o ls

\* line 48
Merge(ls, lbls) == ls \o lbls

\* line 47: delete options.source
DeleteSource(opts) == [f \in DOMAIN opts \ {"source"} |-> opts[f]]

\* line 50 left out
ListenerNeverAttached(innerPc) == FALSE

\* line 50 runs when the inner call of line 49 has returned
ListenerAttached(innerPc) == innerPc # "crashed"

\* lines 47-50: the source-label fetch answers lbls
SourceFetchOk ==
    /\ pc = "source"
    /\ \E lbls \in SeqsUpTo(RemoteLabels, MaxLabels - Len(labels)) :
          /\ answers' = [answers EXCEPT !.source = lbls]
          /\ Invoke(Merge(labels, lbls), DeleteSource(options))
    /\ nested' = TRUE
    /\ forward' = ListenerAttached(pc')
    /\ UNCHANGED <<run, remote,
                   request, events>>

\* line 90: the repository listing fails
ListingFail ==
    /\ pc = "listing"
    /\ Callback(Args(NetError(ListingCall(user)), Undefined))
    /\ pc' = "returned"
    /\ UNCHANGED <<run, remote,
                   request, labels, options, nested, forward, user, mode, tasks,
                   fan, answers, calls, events>>

\* lines 91-95: the listing answers repos; one checkRepo per repository
ListingOk ==
    /\ pc = "listing"
    /\ \E repos \in RepoLists :
          /\ Len(repos) * Len(labels) <= MaxWrites
          /\ answers' = [answers EXCEPT !.repos = repos]
          /\ tasks' = [k \in 1..Len(repos) |-> NewTask(repos[k].name)]
          /\ fan' = SameTimeNew(Len(repos))
          /\ Issue({LabelsCall(user, repos[k].name) : k \in 1..Len(repos)})
          /\ IF Len(repos) = 0
             THEN /\ Callback(SameTimeArgs(SameTimeNew(0)))
                  /\ pc' = "returned"
             ELSE /\ pc' = "fanout"
                  /\ UNCHANGED cbCalls
    /\ UNCHANGED <<run, remote,
                   request, labels, options, nested, forward, user, mode, events>>

\* lines 87, 93 both handing checkRepo the caller's callback
RepoCallbackDirect(i, args) ==
    /\ Callback(args)
    /\ fan' = fan
    /\ pc' = "returned"

\* the callback checkRepo was given reports (args) for repository i: the
\* caller's callback (line 87) or the done of the repositories' join (line 93)
RepoCallback(i, args) ==
    IF mode = "single"
    THEN /\ Callback(args)
         /\ fan' = fan
         /\ pc' = "returned"
    ELSE LET f == SameTimeDone(fan, i, args.err, args.data)
         IN  /\ fan' = f
             /\ IF SameTimeComplete(f)
                THEN /\ Callback(SameTimeArgs(f))
                     /\ pc' = "returned"
                ELSE UNCHANGED <<cbCalls, pc>>

\* line 120 left out, the fetch answering no labels on failure: the error is
\* lost and the repository's result is that of an empty label list
FetchFailReportsNothing(i) ==
    /\ i \in DOMAIN tasks
    /\ tasks[i].fetch = "pending"
    /\ tasks' = [tasks EXCEPT ![i].fetch = "failed"]
    /\ RepoCallback(i, Args(Null, Arr(<<>>)))
    /\ UNCHANGED <<run, remote,
                   request, labels, options, nested, forward, user, mode, answers,
                   calls, events>>

\* line 120 without its return: the error is reported and the writes are
\* issued all the same, every label taken as new
FetchFailStillWrites(i) ==
    /\ i \in DOMAIN tasks
    /\ tasks[i].fetch = "pending"
    /\ tasks' = [tasks EXCEPT ![i].fetch = "failed"]
    /\ RepoCallback(i, Args(NetError(LabelsCall(user, tasks[i].name)), Undefined))
    /\ Issue({WriteCall(user, tasks[i].name, labels[j], <<>>, j) :
                j \in 1..Len(labels)})
    /\ UNCHANGED <<run, remote,
                   request, labels, options, nested, forward, user, mode, answers,
                   events>>

\* line 120: the existing-labels fetch of repository i fails
FetchFail(i) ==
    /\ i \in DOMAIN tasks
    /\ tasks[i].fetch = "pending"
    /\ tasks' = [tasks EXCEPT ![i].fetch = "failed"]
    /\ RepoCallback(i, Args(NetError(LabelsCall(user, tasks[i].name)), Undefined))
    /\ UNCHANGED <<run, remote,
                   request, labels, options, nested, forward, user, mode, answers,
                   calls, events>>

\* lines 122-126, 148-163: the fetch of repository i answers existing; one
\* write per label is issued
FetchAnswers(i, existing) ==
    LET known == KnownNames(existing)
    IN  /\ tasks' = [tasks EXCEPT ![i].fetch = "ok",
                                  ![i].existing = existing,
                                  ![i].known = known,
                                  ![i].net = [j \in 1..Len(labels) |-> "pending"],
                                  ![i].join = SameTimeNew(Len(labels))]
        /\ Issue({WriteCall(user, tasks[i].name, labels[j], known, j) :
                    j \in 1..Len(labels)})

\* line 117 answered without error, with any list of labels
FetchOk(i) ==
    /\ i \in DOMAIN tasks
    /\ tasks[i].fetch = "pending"
    /\ \E existing \in ExistingLists : FetchAnswers(i, existing)
    /\ UNCHANGED <<run, remote,
                   request, labels, options, pc, nested, forward, user, mode, fan,
                   answers, events, cbCalls>>

\* ev.emit("added", ...): the inner emitter reaches the returned one through
\* the listener of line 50
Emit(e) ==
    events' = IF nested /\ ~forward THEN events ELSE events (+) SetToBag({e})

\* lines 151-154: the write of label j on repository i completes with (e, d)
\* (outcome says how the call ended on the network)
WriteDone(i, j, outcome, e, d) ==
    LET done == WriteDoneArgs(e, d)
        join == SameTimeDone(tasks[i].join, j, done.err, done.data)
    IN  /\ Emit(AddedEvent(user, tasks[i].name, labels[j], e, d, i, j))
        /\ tasks' = [tasks EXCEPT ![i].join = join, ![i].net[j] = outcome]
        /\ IF SameTimeComplete(join)
           THEN RepoCallback(i, SameTimeArgs(join))
           ELSE UNCHANGED <<fan, cbCalls, pc>>
        /\ UNCHANGED <<run, request, labels, options, nested, forward, user, mode, answers,
                       calls>>

WritePending(i, j) ==
    /\ i \in DOMAIN tasks
    /\ tasks[i].fetch = "ok"
    /\ j \in DOMAIN tasks[i].net
    /\ tasks[i].net[j] = "pending"

ThisWrite(i, j) == WriteCall(user, tasks[i].name, labels[j], tasks[i].known, j)

WriteOk(i, j) ==
    /\ WritePending(i, j)
    /\ WriteDone(i, j, "ok", Null, Written(ThisWrite(i, j)))
    /\ UNCHANGED remote

WriteFail(i, j) ==
    /\ WritePending(i, j)
    /\ WriteDone(i, j, "failed", NetError(ThisWrite(i, j)), FailedData)
    /\ UNCHANGED remote

Next ==
    \/ Start
    \/ SourceFetchFail
    \/ SourceFetchOk
    \/ ListingFail
    \/ ListingOk
    \/ \E i \in 1..MaxRepos : FetchFail(i)
    \/ \E i \in 1..MaxRepos : FetchOk(i)
    \/ \E i \in 1..MaxRepos, j \in 1..MaxLabels : WriteOk(i, j)
    \/ \E i \in 1..MaxRepos, j \in 1..MaxLabels : WriteFail(i, j)

Spec == Init /\ [][Next]_vars

(***************************************************************************)
(* What the properties speak of                                            *)
(***************************************************************************)
\* a network call of the run has not been answered yet
AnyPending ==
    \/ pc \in {"source", "listing"}
    \/ \E i \in DOMAIN tasks :
          \/ tasks[i].fetch = "pending"
          \/ \E j \in DOMAIN tasks[i].net : tasks[i].net[j] = "pending"

\* the run has been started and nothing of it is left to happen
RunOver == pc # "init" /\ ~AnyPending

IsError(v) == v.t = "error"
IsValidationError(v) == IsError(v) /\ Has(v, "index")

\* number of calls issued that satisfy P
CallsOfKind(kind) == {c \in BagToSet(calls) : c.kind = kind}

\* C1: in every run the caller's callback is invoked exactly once: never more
\* than once, and once when the run is over (also for a label without a color
\* field and for an empty repository listing).
C1_CallbackExactlyOnce ==
    /\ Len(cbCalls) <= 1
    /\ RunOver => Len(cbCalls) = 1

\* the request has no labels and names no source
EmptyRequest == request.labels = <<>> /\ ~Has(request.options, "source")

\* C2: a request with no labels and no source gets callback(null, null),
\* issues no network call and emits no "added" event.
C2_EmptyRequestIsNoop ==
    EmptyRequest =>
        /\ calls = EmptyBag
        /\ events = EmptyBag
        /\ pc # "init" => cbCalls = <<Args(Null, Null)>>
        /\ pc \in {"init", "returned"}

\* an empty request that has returned
C2_Witness == EmptyRequest /\ pc = "returned" /\ Len(cbCalls) = 1

(***************************************************************************)
(* Malformed labels (C3, C4)                                               *)
(***************************************************************************)
NoUsableName(l) == ~Truthy(l, "name") /\ ~Truthy(l, "label")
ColorEmptyAfterStrip(l) == Has(l, "color") /\ StripHash(l.color) = <<>>
ColorAbsent(l) == ~Has(l, "color")

\* malformed as C3 has it: missing name, or color empty after stripping
Malformed(l) == NoUsableName(l) \/ ColorEmptyAfterStrip(l)
\* offending as C4 has it: also a label whose color is absent
Offending(l) == Malformed(l) \/ ColorAbsent(l)

AnyMalformed == \E k \in DOMAIN request.labels : Malformed(request.labels[k])
AnyOffending == \E k \in DOMAIN request.labels : Offending(request.labels[k])

\* the lowest offending index, counted from 0 as the code counts
FirstOffending ==
    (CHOOSE k \in DOMAIN request.labels :
        /\ Offending(request.labels[k])
        /\ \A m \in 1..(k - 1) : ~Offending(request.labels[m])) - 1

SourceError == NetError(SourceCall(SourceRepo))

\* the loop of lines 56-72 has run: at once when no source is asked for, in
\* the inner invocation once the source labels have arrived
Validated == IF Has(request.options, "source") THEN nested ELSE pc # "init"

C4_ErrorNamesLowestIndex ==
    (AnyOffending /\ Validated) =>
        /\ pc = "returned"
        /\ Len(cbCalls) = 1
        /\ IsValidationError(cbCalls[1].err)
        /\ cbCalls[1].err.index = FirstOffending

(***************************************************************************)
(* Create or update (C5)                                                   *)
(***************************************************************************)
\* the names the existing-labels fetch of repository i answered
ExistingNames(i) == {tasks[i].existing[k].name : k \in DOMAIN tasks[i].existing}

\* the write calls issued for repository i
WriteCallsOf(i) ==
    {c \in CallsOfKind("write") :
        c.endpoint.owner = user /\ c.endpoint.repo = tasks[i].name}

\* C5: for every repository processed and every requested label, one write
\* call is issued, and it targets the label's sub-resource (update) if and
\* only if the label's name is among the names the repository's
\* existing-labels fetch answered; otherwise it targets the collection.
C5_UpdateIffExisting ==
    /\ \A i \in DOMAIN tasks :
          tasks[i].fetch = "ok" =>
             \A j \in DOMAIN labels :
                \E c \in WriteCallsOf(i) :
                   /\ c.idx = j
                   /\ c.data = labels[j]
                   /\ CopiesIn(c, calls) = 1
                   /\ IsUpdate(c.endpoint) <=> labels[j].name \in ExistingNames(i)
                   /\ IsUpdate(c.endpoint) =>
                         c.endpoint.name = EncodeURIComponent(labels[j].name)
    /\ \A c \in CallsOfKind("write") :
          \E i \in DOMAIN tasks :
             /\ tasks[i].fetch = "ok"
             /\ c \in WriteCallsOf(i)
             /\ IsUpdate(c.endpoint) <=> c.data.name \in ExistingNames(i)

\* one repository with an update for a known name and a create for another
C5_Witness ==
    \E i \in DOMAIN tasks :
       /\ tasks[i].fetch = "ok"
       /\ \E c, d \in WriteCallsOf(i) :
             /\ IsUpdate(c.endpoint) /\ c.data.name \in ExistingNames(i)
             /\ ~IsUpdate(d.endpoint) /\ d.data.name \notin ExistingNames(i)

(***************************************************************************)
(* The target (C6)                                                         *)
(***************************************************************************)
TargetSplits == Split(request.options.repo)
TwoSegments == Len(TargetSplits) = 2
ExplicitPair == TwoSegments /\ TargetSplits[2] # <<>>
\* the owner of an owner-only run
ListingOwner == IF TwoSegments THEN TargetSplits[1] ELSE request.options.repo
\* lines 74-97 have run
Resolved == mode # "none"

\* C6, as stated: a target that splits into exactly two segments (an empty
\* second one included) never leads to a repository-listing call.
C6_Original_TwoSegmentsNoListing == TwoSegments => CallsOfKind("repos") = {}

\* C6, amended: a target that splits into exactly two segments with a
\* non-empty second one has exactly one repository processed and no listing
\* call; every other target has one listing call, for the raw string as owner
\* or, when it splits in two with an empty second segment, for the first
\* segment, and the existing-labels fetch of every returned repository is
\* issued before any of them has completed.
C6_TargetResolution ==
    Resolved =>
        IF ExplicitPair
        THEN /\ mode = "single"
             /\ CallsOfKind("repos") = {}
             /\ user = TargetSplits[1]
             /\ Len(tasks) = 1
             /\ tasks[1].name = TargetSplits[2]
             /\ calls \sqsubseteq
                   (SetToBag({LabelsCall(TargetSplits[1], TargetSplits[2])})
                       (+) SetToBag(WriteCallsOf(1))
                       (+) SetToBag(CallsOfKind("source")))
             /\ BagIn(LabelsCall(TargetSplits[1], TargetSplits[2]), calls)
        ELSE /\ mode = "multi"
             /\ user = ListingOwner
             /\ CallsOfKind("repos") = {ListingCall(ListingOwner)}
             /\ CopiesIn(ListingCall(ListingOwner), calls) = 1
             /\ pc = "listing" => CallsOfKind("labels") = {}
             /\ pc # "listing" =>
                   /\ Len(tasks) = Len(answers.repos)
                   /\ \A k \in DOMAIN answers.repos :
                         /\ tasks[k].name = answers.repos[k].name
                         /\ CopiesIn(LabelsCall(ListingOwner, tasks[k].name), calls) = 1
                   /\ CallsOfKind("labels") =
                         {LabelsCall(ListingOwner, answers.repos[k].name) :
                             k \in DOMAIN answers.repos}

\* "a/": an owner-only run over several repositories, every fetch issued and
\* none answered yet
C6_Witness ==
    /\ TwoSegments
    /\ ~ExplicitPair
    /\ Len(tasks) >= 2
    /\ \A k \in DOMAIN tasks :
          /\ tasks[k].fetch = "pending"
          /\ BagIn(LabelsCall(ListingOwner, tasks[k].name), calls)

(***************************************************************************)
(* Source labels and events (C7, C8)                                       *)
(***************************************************************************)
\* the "added" events seen for the write of label j on repository i
EventsOf(i, j) == {e \in BagToSet(events) : e.of = <<i, j>>}

\* the writes that have completed
CompletedWrites ==
    {<<i, j>> \in (DOMAIN tasks) \X (DOMAIN labels) :
        j \in DOMAIN tasks[i].net /\ tasks[i].net[j] # "pending"}

\* what the network answered the completed write of label j on repository i
ErrOf(i, j) == IF tasks[i].net[j] = "ok" THEN Null ELSE NetError(ThisWrite(i, j))
DataOf(i, j) == IF tasks[i].net[j] = "ok" THEN Written(ThisWrite(i, j)) ELSE FailedData

\* C7: when options.source is set and its fetch succeeds, the labels applied
\* are the explicit labels followed by the fetched source labels, in that
\* order and with same-named duplicates kept: every repository whose fetch
\* succeeded gets len(explicit) + len(source) write calls, and each one that
\* completes produces its own "added" event.
C7_SourceLabelsAppended ==
    (nested /\ Resolved) =>
        LET ne == Len(request.labels)
            ns == Len(answers.source)
        IN  /\ Len(labels) = ne + ns
            /\ \A j \in 1..ne : labels[j] = NormalizeLabel(request.labels[j])
            /\ \A j \in 1..ns :
                  labels[ne + j] = [name |-> answers.source[j].name,
                                    color |-> answers.source[j].color]
            /\ \A i \in DOMAIN tasks :
                  tasks[i].fetch = "ok" =>
                     /\ Cardinality(WriteCallsOf(i)) = ne + ns
                     /\ \A c \in WriteCallsOf(i) :
                           /\ CopiesIn(c, calls) = 1
                           /\ c.idx \in 1..(ne + ns)
                           /\ c.data = labels[c.idx]
                     /\ \A j \in 1..(ne + ns) :
                           IF tasks[i].net[j] = "pending"
                           THEN EventsOf(i, j) = {}
                           ELSE \E e \in EventsOf(i, j) :
                                   /\ EventsOf(i, j) = {e}
                                   /\ CopiesIn(e, events) = 1
                                   /\ e.label = labels[j]

\* explicit bug, source answering bug and feat: three writes on a repository,
\* all completed, three events
C7_Witness ==
    /\ nested
    /\ Len(request.labels) = 1
    /\ Has(request.labels[1], "name")
    /\ request.labels[1].name = NameBug
    /\ answers.source = <<RemoteBug, RemoteFeat>>
    /\ \E i \in DOMAIN tasks :
          /\ tasks[i].fetch = "ok"
          /\ \A j \in 1..3 : tasks[i].net[j] # "pending"
    /\ BagCardinality(events) = 3

\* C8: the returned emitter emits exactly one "added" event per completed
\* create/update call, whether it succeeded or failed, with the error field
\* null on success and the call's error on failure; also in runs with
\* options.source, where the inner invocation issues the writes.
C8_OneEventPerCompletedWrite ==
    /\ \A w \in CompletedWrites :
          /\ EventsOf(w[1], w[2]) =
                {AddedEvent(user, tasks[w[1]].name, labels[w[2]],
                            ErrOf(w[1], w[2]), DataOf(w[1], w[2]), w[1], w[2])}
          /\ \A e \in EventsOf(w[1], w[2]) : CopiesIn(e, events) = 1
    /\ \A e \in BagToSet(events) : e.of \in CompletedWrites
    /\ BagCardinality(events) = Cardinality(CompletedWrites)

\* a source run with one write that failed and one that succeeded
C8_Witness ==
    /\ nested
    /\ \E w, v \in CompletedWrites :
          /\ tasks[w[1]].net[w[2]] = "failed"
          /\ tasks[v[1]].net[v[2]] = "ok"
          /\ \E e \in EventsOf(w[1], w[2]) : IsError(e.err)
          /\ \E e \in EventsOf(v[1], v[2]) : e.err = Null

(***************************************************************************)
(* Failures inside the fan-out (C9, C10)                                   *)
(***************************************************************************)
\* an owner-only run over several repositories in which exactly the fetch of
\* repository b failed and every other one succeeded
OnlyFetchFailed(b) ==
    /\ mode = "multi"
    /\ Len(tasks) >= 2
    /\ tasks[b].fetch = "failed"
    /\ \A i \in DOMAIN tasks \ {b} : tasks[i].fetch = "ok"

\* the result the join of the labels of repository i hands on (line 156)
RepoResult(i) == Arr([j \in DOMAIN labels |-> DataOf(i, j)])

FailedWrites == {w \in CompletedWrites : tasks[w[1]].net[w[2]] = "failed"}

\* the slot of repository i in what the final callback received
RepoSlot(i) ==
    IF mode = "single" THEN cbCalls[1].data ELSE cbCalls[1].data.items[i]

\* C10, as stated: the error of a failed create/update call is present in
\* the aggregated result the final callback receives.
C10_Original_ErrorInResult ==
    \A w \in FailedWrites :
       pc = "returned" =>
          \/ cbCalls[1].err = ErrOf(w[1], w[2])
          \/ RepoSlot(w[1]).items[w[2]] = ErrOf(w[1], w[2])

\* C10, amended: a failed create/update call does not prevent the writes of
\* the other labels of that repository or of other repositories (all are
\* issued and all complete before the final callback), and its error is
\* carried in that label's "added" event; it is not in the aggregated
\* result: that label's slot holds only the data the failed call handed
\* back, and the callback's error argument is never the error of a write.
C10_WriteFailureIsLocal ==
    \A w \in FailedWrites :
       /\ \E e \in EventsOf(w[1], w[2]) : e.err = ErrOf(w[1], w[2])
       /\ \A i \in DOMAIN tasks :
             tasks[i].fetch = "ok" => Cardinality(WriteCallsOf(i)) = Len(labels)
       /\ AnyPending => cbCalls = <<>>
       /\ ~AnyPending =>
             /\ pc = "returned"
             /\ Len(cbCalls) = 1
             /\ RepoSlot(w[1]) = RepoResult(w[1])
             /\ RepoSlot(w[1]).items[w[2]] = FailedData
             /\ cbCalls[1].err # ErrOf(w[1], w[2])
             /\ mode = "single" => cbCalls[1].err = Null
             /\ \A v \in FailedWrites : cbCalls[1].err # ErrOf(v[1], v[2])

\* one repository, one label failed and another succeeded, the run is over
C10_Witness ==
    /\ pc = "returned"
    /\ mode = "single"
    /\ \E w \in FailedWrites :
          \E v \in CompletedWrites \ FailedWrites :
             /\ v[1] = w[1]
             /\ RepoSlot(w[1]).items[v[2]] = DataOf(v[1], v[2])
    /\ cbCalls[1].err = Null

(***************************************************************************)
(* What an event identifies (C11)                                          *)
(***************************************************************************)
\* the (owner, repo, label) of an event
Triple(e) == <<e.owner, e.repo, e.label>>

\* C11, as stated: no two distinct upsert attempts of a run emit events with
\* equal (owner, repo, label) triples, also when the merged list holds
\* same-named labels.
C11_Original_TriplesUnique ==
    \A e1, e2 \in BagToSet(events) :
       e1.of # e2.of => Triple(e1) # Triple(e2)

\* C11, amended: every event carries the owner, the repository and the label
\* of the upsert it reports, and the events of two distinct upsert attempts
\* have equal triples exactly when both are for the same repository and the
\* merged list holds equal labels at their two positions; labels of different
\* names never share a triple.
C11_TriplesIdentify ==
    \A e1 \in BagToSet(events) :
       /\ e1.owner = user
       /\ e1.repo = tasks[e1.of[1]].name
       /\ e1.label = labels[e1.of[2]]
       /\ \A e2 \in BagToSet(events) :
             e1.of # e2.of =>
                /\ Triple(e1) = Triple(e2) <=>
                      /\ e1.of[1] = e2.of[1]
                      /\ labels[e1.of[2]] = labels[e2.of[2]]
                /\ e1.label.name # e2.label.name => Triple(e1) # Triple(e2)

\* two writes of one repository for equal labels, both reported, and a write
\* of another repository reported as well
C11_Witness ==
    /\ \E e1, e2 \in BagToSet(events) :
          e1.of # e2.of /\ Triple(e1) = Triple(e2)
    /\ \E e1, e2 \in BagToSet(events) : e1.of[1] # e2.of[1]

(***************************************************************************)
(* Results in input order (C13)                                            *)
(***************************************************************************)
\* every fetch and every write of the run has succeeded
AllSucceeded ==
    /\ tasks # <<>>
    /\ labels # <<>>
    /\ \A i \in DOMAIN tasks :
          /\ tasks[i].fetch = "ok"
          /\ \A j \in DOMAIN tasks[i].net : tasks[i].net[j] = "ok"

\* what the remote answered the write of label j on repository i with
ResultOf(i, j) == Written(ThisWrite(i, j))

\* the results of repository i, label by label as the list has them
ResultsInOrder(i) == Arr([j \in 1..Len(labels) |-> ResultOf(i, j)])

\* C13: when every task of a fan-out has succeeded, the callback gets no
\* error and the per-task results in input order, whatever the completion
\* order: for one repository the j-th result is that of the j-th label, for
\* an owner the i-th result is the list of the i-th listed repository.
C13_ResultsInInputOrder ==
    AllSucceeded =>
        /\ pc = "returned"
        /\ cbCalls = <<Args(Null,
                        IF mode = "single" THEN ResultsInOrder(1)
                        ELSE Arr([i \in 1..Len(tasks) |-> ResultsInOrder(i)]))>>

\* two repositories with two labels of different names each, all succeeded
C13_Witness ==
    /\ AllSucceeded
    /\ mode = "multi"
    /\ Len(tasks) = 2
    /\ Len(labels) = 2
    /\ labels[1].name # labels[2].name
    /\ Len(cbCalls) = 1

(***************************************************************************)
(* A failed source fetch (C14)                                             *)
(***************************************************************************)
\* the source-label fetch has been answered with an error: the request names
\* a source, the fetch is no longer awaited and no inner invocation was made
SourceFetchFailed ==
    /\ Has(request.options, "source")
    /\ pc \notin {"init", "source"}
    /\ ~nested

\* C14: when the source-label fetch fails the callback is invoked exactly
\* once, with that error, and nothing else happens: the source fetch stays
\* the only network call (no listing, no existing-labels fetch, no write)
\* and no "added" event is emitted.
C14_SourceFailureAborts ==
    SourceFetchFailed =>
        /\ cbCalls = <<Args(SourceError, Undefined)>>
        /\ calls = SetToBag({SourceCall(SourceRepo)})
        /\ events = EmptyBag
        /\ tasks = <<>>
        /\ pc = "returned"

\* the source fetch of a request with labels of its own has failed
C14_Witness ==
    /\ SourceFetchFailed
    /\ request.labels # <<>>
    /\ Len(cbCalls) = 1
    /\ IsError(cbCalls[1].err)

(***************************************************************************)
(* Labels of the same name (C16)                                           *)
(***************************************************************************)
\* C16, as stated: within one run no repository receives two create calls
\* for the same label name.
C16_Original_NoTwoCreates ==
    \A i \in DOMAIN tasks :
       \A c, d \in WriteCallsOf(i) :
          (c # d /\ c.data.name = d.data.name) =>
             IsUpdate(c.endpoint) \/ IsUpdate(d.endpoint)

\* C16, amended: the write calls a repository gets for labels of the same
\* name are of the same kind, decided by the names its existing-labels fetch
\* answered: updates when the name is among them, creates when it is not.
C16_SameNameSameKind ==
    \A i \in DOMAIN tasks :
       \A c, d \in WriteCallsOf(i) :
          c.data.name = d.data.name =>
             /\ IsUpdate(c.endpoint) <=> IsUpdate(d.endpoint)
             /\ IsUpdate(c.endpoint) <=> c.data.name \in ExistingNames(i)

\* one repository that got two creates for one name, another that got two
\* updates for it
C16_Witness ==
    \E i, k \in DOMAIN tasks :
       /\ \E c, d \in WriteCallsOf(i) :
             /\ c # d /\ c.data.name = d.data.name
             /\ ~IsUpdate(c.endpoint) /\ ~IsUpdate(d.endpoint)
       /\ \E c, d \in WriteCallsOf(k) :
             /\ c # d /\ c.data.name = d.data.name
             /\ IsUpdate(c.endpoint) /\ IsUpdate(d.endpoint)

(***************************************************************************)
(* A failed existing-labels fetch (C17, C20)                               *)
(***************************************************************************)
\* C17: with an explicit owner/repo target, when the existing-labels fetch
\* of the repository fails the callback receives that error (once, with no
\* result), no create or update call is issued and no "added" event is
\* emitted.
C17_SingleFetchFailureAborts ==
    (mode = "single" /\ tasks[1].fetch = "failed") =>
        /\ cbCalls = <<Args(NetError(LabelsCall(user, tasks[1].name)), Undefined)>>
        /\ CallsOfKind("write") = {}
        /\ events = EmptyBag
        /\ pc = "returned"

\* an explicit target whose existing-labels fetch has failed
C17_Witness ==
    /\ mode = "single"
    /\ Len(tasks) = 1
    /\ tasks[1].fetch = "failed"
    /\ labels # <<>>
    /\ Len(cbCalls) = 1

\* the events of the writes of repository i
EventsOfRepo(i) == {e \in BagToSet(events) : e.of[1] = i}

\* C20: a repository has no write call and no "added" event unless its own
\* existing-labels fetch has succeeded (not while it is pending, never once
\* it has failed), and once it has succeeded its writes are issued whatever
\* the state of the other repositories' fetches.
C20_OwnFetchGatesWrites ==
    \A i \in DOMAIN tasks :
       /\ tasks[i].fetch # "ok" =>
             /\ WriteCallsOf(i) = {}
             /\ EventsOfRepo(i) = {}
       /\ tasks[i].fetch = "ok" =>
             {c.idx : c \in WriteCallsOf(i)} = DOMAIN labels

\* three repositories: one written to and reported while the fetch of
\* another is awaited and that of the third has failed
C20_Witness ==
    \E i, k, m \in DOMAIN tasks :
       /\ tasks[i].fetch = "ok" /\ EventsOfRepo(i) # {}
       /\ tasks[k].fetch = "pending"
       /\ tasks[m].fetch = "failed" /\ WriteCallsOf(m) = {}

(***************************************************************************)
(* The payload of a write (C18)                                            *)
(***************************************************************************)
\* the merged list before normalisation: the request's labels, then those
\* the source answered
MergedRaw == request.labels \o answers.source

\* C18: the payload of every write call is the normalised label of one
\* position of the merged list: its name (or label alias) and its color with
\* one leading '#' removed, both non-empty, and no other field, also for a
\* source label that came with more fields.
C18_PayloadIsNormalizedLabel ==
    \A c \in CallsOfKind("write") :
       /\ DOMAIN c.data = {"name", "color"}
       /\ c.data.name # <<>>
       /\ c.data.color # <<>>
       /\ c.idx \in DOMAIN MergedRaw
       /\ c.data = labels[c.idx]
       /\ c.data.name = IF Truthy(MergedRaw[c.idx], "name")
                        THEN MergedRaw[c.idx].name
                        ELSE MergedRaw[c.idx].label
       /\ c.data.color = IF Head(MergedRaw[c.idx].color) = "#"
                         THEN Tail(MergedRaw[c.idx].color)
                         ELSE MergedRaw[c.idx].color

\* a write for a source label that arrived with a url field, and one for a
\* label given by its alias
C18_Witness ==
    /\ \E c \in CallsOfKind("write") :
          /\ c.idx > Len(request.labels)
          /\ Has(MergedRaw[c.idx], "url")
    /\ \E c \in CallsOfKind("write") : Has(MergedRaw[c.idx], "label")

(***************************************************************************)
(* Events and the final callback (C19)                                     *)
(***************************************************************************)
\* C19: once the caller's callback has been invoked no "added" event is
\* emitted: in every step taken after it the events stay as they are.
C19_NoEventAfterCallback == [][cbCalls # <<>> => events' = events]_vars

\* an owner-only run that reported the writes of two repositories and then
\* invoked the callback
C19_Witness ==
    /\ pc = "returned"
    /\ mode = "multi"
    /\ Len(cbCalls) = 1
    /\ \E e1, e2 \in BagToSet(events) : e1.of[1] # e2.of[1]

(***************************************************************************)
(* Calling again, against repositories that keep their labels (C12, C15)   *)
(***************************************************************************)
MaxRuns == 2        \* calls the caller makes, one after the other
MaxColorLen == 3    \* longest color string tried

\* the error of a create for a name the repository already has
AlreadyExists(call) == [t |-> "error", msg |-> "already exists", call |-> call]

\* the labels of repository repo, and their names
RemoteOf(repo) == {l \in remote : l.repo = repo}
RemoteNamesOf(repo) == {l.name : l \in RemoteOf(repo)}

\* a set as a list
RECURSIVE SetToSeq(_)
SetToSeq(S) ==
    IF S = {} THEN <<>>
    ELSE LET x == CHOOSE y \in S : TRUE
         IN  <<x>> \o SetToSeq(S \ {x})

\* what the existing-labels fetch of repository repo answers: all its labels
RemoteListing(repo) ==
    SetToSeq({[name |-> l.name, color |-> l.color, url |-> <<"u">>] :
                l \in RemoteOf(repo)})

\* the repository after the write call has been applied to it
RemoteAfter(repo, label) ==
    {l \in remote : ~(l.repo = repo /\ l.name = label.name)}
        \cup {[repo |-> repo, name |-> label.name, color |-> label.color]}

\* line 117 answered with the labels the repository has
FetchOkRemote(i) ==
    /\ i \in DOMAIN tasks
    /\ tasks[i].fetch = "pending"
    /\ FetchAnswers(i, RemoteListing(tasks[i].name))
    /\ UNCHANGED <<run, remote,
                   request, labels, options, pc, nested, forward, user, mode, fan,
                   answers, events, cbCalls>>

\* the write of label j on repository i is applied: an update of a label the
\* repository has, or a create of one it has not
WriteOkRemote(i, j) ==
    /\ WritePending(i, j)
    /\ IsUpdate(ThisWrite(i, j).endpoint) <=>
          labels[j].name \in RemoteNamesOf(tasks[i].name)
    /\ WriteDone(i, j, "ok", Null, Written(ThisWrite(i, j)))
    /\ remote' = RemoteAfter(tasks[i].name, labels[j])

\* the repository rejects a create for a name it already has
WriteRejected(i, j) ==
    /\ WritePending(i, j)
    /\ ~IsUpdate(ThisWrite(i, j).endpoint)
    /\ labels[j].name \in RemoteNamesOf(tasks[i].name)
    /\ WriteDone(i, j, "rejected", AlreadyExists(ThisWrite(i, j)), FailedData)
    /\ UNCHANGED remote

\* the array the caller holds after a call: line 58 writes the normalised
\* labels into the array it was given, line 48 makes a new one for the inner
\* invocation
CallerLabels == IF nested THEN request.labels ELSE labels

\* after the callback the caller gets ready to call again, with the same
\* array and the same options object (line 47 has deleted its source); the
\* emitter and the network calls of the next call are new, the invocations of
\* the callback stay on record, one for each call made
Rerun ==
    /\ pc = "returned"
    /\ run < MaxRuns
    /\ run' = run + 1
    /\ pc' = "init"
    /\ labels' = CallerLabels
    /\ nested' = FALSE
    /\ forward' = FALSE
    /\ user' = <<>>
    /\ mode' = "none"
    /\ tasks' = <<>>
    /\ fan' = NoJoin
    /\ answers' = [source |-> <<>>, repos |-> <<>>]
    /\ calls' = EmptyBag
    /\ events' = EmptyBag
    /\ UNCHANGED <<request, options, cbCalls, remote>>

\* the state before the first call for request r against repositories remote0
InitWith(r, remote0) ==
    /\ request = r
    /\ labels = r.labels
    /\ options = r.options
    /\ pc = "init"
    /\ nested = FALSE
    /\ forward = FALSE
    /\ user = <<>>
    /\ mode = "none"
    /\ tasks = <<>>
    /\ fan = NoJoin
    /\ answers = [source |-> <<>>, repos |-> <<>>]
    /\ calls = EmptyBag
    /\ events = EmptyBag
    /\ cbCalls = <<>>
    /\ run = 1
    /\ remote = remote0

\* one repository, named by the caller
OneRepo == <<"a", "/", "b">>

\* what the repository may hold before the first call
RemoteInits ==
    { {},
      {[repo |-> ParseTarget(OneRepo).repo, name |-> RemoteBug.name,
        color |-> RemoteBug.color]} }

\* label sets of well-formed labels, same-named ones included
GoodLabels == {l \in RawLabels : ~Offending(l)}

InitRerun ==
    \E ls \in SeqsUpTo(GoodLabels, MaxLabels), remote0 \in RemoteInits :
       InitWith([labels |-> ls, options |-> [repo |-> OneRepo]], remote0)

NextRerun ==
    \/ Start
    \/ \E i \in 1..MaxRepos : FetchFail(i)
    \/ \E i \in 1..MaxRepos : FetchOkRemote(i)
    \/ \E i \in 1..MaxRepos, j \in 1..MaxLabels : WriteOkRemote(i, j)
    \/ \E i \in 1..MaxRepos, j \in 1..MaxLabels : WriteRejected(i, j)
    \/ \E i \in 1..MaxRepos, j \in 1..MaxLabels : WriteFail(i, j)
    \/ Rerun

SpecRerun == InitRerun /\ [][NextRerun]_vars

\* the color strings tried
Colors == SeqsUpTo({"#", "f", "0"}, MaxColorLen)

\* a color and the same color behind a '#', as the colors of two labels
InitColor ==
    \E c \in Colors :
       InitWith([labels |-> << [name |-> NameBug, color |-> c],
                               [name |-> NameBug, color |-> <<"#">> \o c] >>,
                 options |-> [repo |-> OneRepo]], {})

SpecColor == InitColor /\ [][NextRerun]_vars

(***************************************************************************)
(* Color normalisation (C12)                                               *)
(***************************************************************************)
\* the color the caller gave label k
RawColor(k) == request.labels[k].color

BeginsWithHash(color) == Len(color) >= 1 /\ color[1] = "#"
BeginsWithTwoHashes(color) == Len(color) >= 2 /\ color[1] = "#" /\ color[2] = "#"

\* label 2 was given the color of label 1 behind a '#', and the color of
\* label 1 has no '#' in front
HashAndPlain ==
    /\ Len(request.labels) = 2
    /\ RawColor(1) # <<>>
    /\ ~BeginsWithHash(RawColor(1))
    /\ RawColor(2) = <<"#">> \o RawColor(1)

\* C12, as stated: a color with a leading '#' and the same color without it
\* normalise to the same value, and for every input color string normalising
\* the normalised value again (a later call with the array the first call
\* normalised) leaves it unchanged.
C12_Original_Idempotent ==
    [][(pc = "init" /\ pc' # "init") =>
          /\ (run = 1 /\ HashAndPlain) => labels'[1].color = labels'[2].color
          /\ run > 1 => labels' = labels]_vars

\* C12, amended: a color with a leading '#' and the same color without it
\* normalise to the same value, the color without the '#'; normalising again
\* leaves unchanged every label whose input color does not begin with two
\* '#'.
C12_ColorNormalization ==
    [][(pc = "init" /\ pc' # "init") =>
          /\ (run = 1 /\ HashAndPlain) =>
                /\ labels'[1].color = RawColor(1)
                /\ labels'[2].color = RawColor(1)
          /\ run > 1 =>
                \A k \in DOMAIN labels :
                   ~BeginsWithTwoHashes(RawColor(k)) => labels'[k] = labels[k]]_vars

\* a second call has normalised again what the first call made of a color
\* and of the same color behind a '#'
C12_Witness ==
    /\ run = 2
    /\ pc = "fanout"
    /\ HashAndPlain
    /\ labels[1].color = RawColor(1)
    /\ labels[2].color = RawColor(1)

(***************************************************************************)
(* Running a label set again (C15)                                         *)
(***************************************************************************)
\* an earlier run handed its callback no error
EarlierRunCompleted == \E r \in 1..(run - 1) : cbCalls[r].err = Null

\* an earlier run's write of label j succeeded: its result is the label the
\* remote answered
WrittenEarlier(j) ==
    \E r \in 1..(run - 1) :
       /\ cbCalls[r].data.t = "array"
       /\ cbCalls[r].data.items[j].t = "label"

====
